---- MODULE Spec2Model ----
(***************************************************************************)
(* Model of the Freshservice MCP adapter (src/src/freshservice_mcp/        *)
(* server.py): the Link-header parser and the tool operations that page    *)
(* through the upstream API.  A tool invocation is a coroutine; it runs    *)
(* atomically from one `await client.get(...)` to the next, so an          *)
(* invocation is modelled at its await points: a call runs the handler up  *)
(* to its first request (or return), the upstream answers the outstanding  *)
(* request, and the handler resumes with the answer up to its next         *)
(* request, its return, or the exception that leaves it.                   *)
(***************************************************************************)
EXTENDS Integers, Sequences, FiniteSets, TLC

\* ------------------------------------------------------------------ bounds

\* Largest page number a caller passes and a Link header carries.
MaxPage == 2

\* Horizon of the model: HTTP requests one invocation may issue.
MaxRequests == 3

\* The entries of a Link header.
MaxEntries == 2

\* ------------------------------------------------------- program constants

\* Upper limit of per_page in the paged operations.
PerPageLimit == 100

\* Python's None, for a page marker that is absent (markers are ints >= 0).
None == -1

\* ------------------------------------------------------------- Link header

(* A string is the sequence of its characters, so that the regular          *)
(* expressions of parse_link_header are applied to the text itself.  The    *)
(* Link header of a response is [present |-> TRUE, value |-> string], or    *)
(* [present |-> FALSE] when the response has none (headers.get gives None). *)
AbsentLink == [present |-> FALSE, value |-> << >>]

Link(v) == [present |-> TRUE, value |-> v]

\* response.headers.get("Link", ""): the value, or the default "" when the
\* header is absent.
headers_get_default(link) == IF link.present THEN link.value ELSE << >>

\* Let({ e : x \in { v } }) is e with x standing for the value of v: a local
\* variable x of the code, assigned v once and read in e.
Let(S) == CHOOSE r \in S : TRUE

Min(S) == CHOOSE x \in S : \A y \in S : x <= y

\* The literal lit stands in s at position i.
StartsWith(s, i, lit) ==
    /\ i >= 1
    /\ i + Len(lit) - 1 <= Len(s)
    /\ SubSeq(s, i, i + Len(lit) - 1) = lit

DigitChars == << "0", "1", "2", "3", "4", "5", "6", "7", "8", "9" >>

\* \d
IsDigit(c) == \E d \in 1..Len(DigitChars) : DigitChars[d] = c

\* \s
IsSpace(c) == c \in { " ", "\t" }

\* int(text) of a run of digits.
RECURSIVE int(_)
int(digits) ==
    IF digits = << >> THEN 0
    ELSE LET last == digits[Len(digits)]
             d == CHOOSE k \in 1..Len(DigitChars) : DigitChars[k] = last
         IN  10 * int(SubSeq(digits, 1, Len(digits) - 1)) + (d - 1)

\* The Python string of a sequence of characters (a dict key).
RECURSIVE str(_)
str(chars) == IF chars = << >> THEN "" ELSE Head(chars) \o str(Tail(chars))

\* link_header.split(','): the pieces between the commas.
RECURSIVE split(_)
split(s) ==
    Let({ IF commas = { } THEN << s >>
          ELSE Let({ << SubSeq(s, 1, k - 1) >> \o split(SubSeq(s, k + 1, Len(s))) :
                     k \in { Min(commas) } }) :
          commas \in { { k \in 1..Len(s) : s[k] = "," } } })

\* \s* from position q: the position after the run of white space.
RECURSIVE skip_spaces(_, _)
skip_spaces(s, q) ==
    IF q <= Len(s) /\ IsSpace(s[q]) THEN skip_spaces(s, q + 1) ELSE q

rel_literal == << "r", "e", "l", "=", "\"" >>

page_literal == << "p", "a", "g", "e", "=" >>

\* The positions of a '"' that can close rel="(.+?)" opened at q: the group
\* holds at least one character.
closing_quotes(s, q) ==
    { k \in (q + Len(rel_literal) + 1)..Len(s) : s[k] = "\"" }

\* >;\s*rel="(.+?)" matches at position j.
tail_matches(s, j) ==
    /\ j + 1 <= Len(s)
    /\ s[j] = ">"
    /\ s[j + 1] = ";"
    /\ LET q == skip_spaces(s, j + 2) IN
       StartsWith(s, q, rel_literal) /\ closing_quotes(s, q) # { }

\* The positions where the group <(.+?) opened at i can end: it holds at
\* least one character, and the rest of the pattern matches after it.
url_ends(s, i) == { j \in (i + 2)..Len(s) : tail_matches(s, j) }

\* re.search(r'<(.+?)>;\s*rel="(.+?)"', link): the leftmost match, each lazy
\* group as short as the rest of the pattern allows; its two groups.
\* The groups of the match that starts at i, its first group ending before j.
match_groups(s, i, j) ==
    Let({ Let({ [matched |-> TRUE,
                 url |-> SubSeq(s, i + 1, j - 1),
                 rel |-> SubSeq(s, q + Len(rel_literal), k - 1)] :
                k \in { Min(closing_quotes(s, q)) } }) :
          q \in { skip_spaces(s, j + 2) } })

link_match(s) ==
    Let({ IF starts = { }
          THEN [matched |-> FALSE, url |-> << >>, rel |-> << >>]
          ELSE Let({ Let({ match_groups(s, i, j) : j \in { Min(url_ends(s, i)) } }) :
                     i \in { Min(starts) } }) :
          starts \in { { i \in 1..Len(s) : s[i] = "<" /\ url_ends(s, i) # { } } } })

\* (\d+) from position k: the position of the last digit of the run.
RECURSIVE digits_end(_, _)
digits_end(s, k) ==
    IF k + 1 <= Len(s) /\ IsDigit(s[k + 1]) THEN digits_end(s, k + 1) ELSE k

\* The positions in url of "page=" followed by a digit.
page_starts(url) ==
    { k \in 1..Len(url) :
        /\ StartsWith(url, k, page_literal)
        /\ k + Len(page_literal) <= Len(url)
        /\ IsDigit(url[k + Len(page_literal)]) }

\* Mutant: a URL without a page number counts as page 1.
page_match_default(url) ==
    Let({ IF starts = { } THEN [matched |-> TRUE, page_num |-> 1]
          ELSE Let({ [matched |-> TRUE,
                      page_num |-> int(SubSeq(url, d, digits_end(url, d)))] :
                     d \in { Min(starts) + Len(page_literal) } }) :
          starts \in { page_starts(url) } })

\* re.search(r'page=(\d+)', url): the leftmost "page=" followed by a digit,
\* wherever it stands (also at the end of "per_page="); int(group(1)).
page_match(url) ==
    Let({ IF starts = { } THEN [matched |-> FALSE, page_num |-> 0]
          ELSE Let({ [matched |-> TRUE,
                      page_num |-> int(SubSeq(url, d, digits_end(url, d)))] :
                     d \in { Min(starts) + Len(page_literal) } }) :
          starts \in { page_starts(url) } })

\* Mutant: a piece that is no entry discards the markers found so far.
parse_link_strict(pagination, link) ==
    Let({ IF ~match.matched THEN [next |-> None, prev |-> None]
          ELSE Let({ IF ~pm.matched THEN [next |-> None, prev |-> None]
                     ELSE (str(match.rel) :> pm.page_num) @@ pagination :
                     pm \in { page_match(match.url) } }) :
          match \in { link_match(link) } })

\* Mutant: a relation keeps the page number of its first entry.
parse_link_first_wins(pagination, link) ==
    Let({ IF ~match.matched THEN pagination
          ELSE Let({ IF ~pm.matched THEN pagination
                     ELSE pagination @@ (str(match.rel) :> pm.page_num) :
                     pm \in { page_match(match.url) } }) :
          match \in { link_match(link) } })

\* The loop body of parse_link_header for one piece of the header.
parse_link(pagination, link) ==
    Let({ IF ~match.matched THEN pagination
          ELSE Let({ IF ~pm.matched THEN pagination
                     ELSE (str(match.rel) :> pm.page_num) @@ pagination :
                     pm \in { page_match(match.url) } }) :
          match \in { link_match(link) } })

\* Mutant: the loop ends at the first entry that gives the next marker.
RECURSIVE parse_links_until_next(_, _, _)
parse_links_until_next(pagination, links, k) ==
    IF k > Len(links) \/ pagination.next # None THEN pagination
    ELSE parse_links_until_next(parse_link(pagination, links[k]), links, k + 1)

RECURSIVE parse_links(_, _, _)
parse_links(pagination, links, k) ==
    IF k > Len(links) THEN pagination
    ELSE parse_links(parse_link(pagination, links[k]), links, k + 1)

\* Mutant: no guard for a header that is None; None.split raises.
parse_link_header_unguarded(link) ==
    LET pagination == [next |-> None, prev |-> None] IN
    IF ~link.present THEN [raised |-> "AttributeError"]
    ELSE Let({ parse_links(pagination, links, 1) :
               links \in { split(link.value) } })

\* parse_link_header(link_header), link_header a string or None.
parse_link_header(link) ==
    LET pagination == [next |-> None, prev |-> None] IN
    IF ~link.present \/ link.value = << >> THEN pagination
    ELSE Let({ parse_links(pagination, links, 1) :
               links \in { split(link.value) } })

(* The text of Link headers as an upstream writes them.                     *)
\* str(n) of a number n >= 0.
RECURSIVE decimal(_)
decimal(n) ==
    IF n < 10 THEN << DigitChars[n + 1] >>
    ELSE decimal(n \div 10) \o << DigitChars[(n % 10) + 1] >>

url_base == << "h", "t", "t", "p", ":", "/", "/", "x", "?" >>

rel_next == << "n", "e", "x", "t" >>

rel_prev == << "p", "r", "e", "v" >>

\* <url>; rel="rel"
LinkEntry(url, rel) ==
    << "<" >> \o url \o << ">", ";", " " >> \o rel_literal \o rel \o << "\"" >>

PageParam(p) == page_literal \o decimal(p)

NextEntry(p) == LinkEntry(url_base \o PageParam(p), rel_next)

PrevEntry(p) == LinkEntry(url_base \o PageParam(p), rel_prev)

\* Python truthiness of a marker: None and 0 are falsy.
Truthy(marker) == marker # None /\ marker # 0

\* ---------------------------------------------------------------- upstream

(* What `await client.get(...)` hands back: an HTTP response, or a          *)
(* transport failure (connection refused, timeout, DNS), which httpx raises *)
(* as an exception from the await.  A response has a status, a body that    *)
(* does or does not parse as JSON, and possibly a Link header.  A JSON body *)
(* is a document with one list under one key, {"agents": [...]}.            *)
Doc(k, l) == [key |-> k, list |-> l]

NoDoc == Doc("", << >>)

Bodies == { Doc("agents", << "a" >>), Doc("products", << "b", "a" >>) }

Headers ==
    { AbsentLink, Link(<< >>) } \cup { Link(NextEntry(p)) : p \in 0..MaxPage }

ErrorStatuses == { 404, 500 }

HttpResponse(s, j, b, l) ==
    [kind |-> "response", status |-> s, json_ok |-> j, body |-> b, link |-> l]

TransportFailure ==
    [kind |-> "failure", status |-> 0, json_ok |-> FALSE, body |-> NoDoc,
     link |-> AbsentLink]

NoResponse ==
    [kind |-> "none", status |-> 0, json_ok |-> FALSE, body |-> NoDoc,
     link |-> AbsentLink]

\* 2xx responses whose body is JSON: the pages of a listing.
Pages2xx == { HttpResponse(200, TRUE, b, l) : b \in Bodies, l \in Headers }

Responses ==
    Pages2xx
    \cup { HttpResponse(200, FALSE, NoDoc, AbsentLink) }
    \cup { HttpResponse(s, j, NoDoc, AbsentLink) : s \in ErrorStatuses, j \in BOOLEAN }
    \cup { TransportFailure }

\* A body that is no JSON document: its text ("" is a response without
\* content).
RawText(t) == Doc("", << t >>)

\* response.text
response_text(resp) == [text |-> resp.body]

\* response.content is empty.
content_empty(resp) == resp.body = RawText("")

\* The JSON bodies of the answers to a request on one resource: the resource,
\* {"errors": [...]}, {"error": "..."} and {"message": "..."}.
ResourceBody == Doc("ticket", << "t" >>)

\* {"ticket": {"type": "Service Request"}}: the list of a ticket document
\* holds the ticket's type.
ServiceRequestBody == Doc("ticket", << "Service Request" >>)

ErrorBodies ==
    { Doc("errors", << "e" >>), Doc("error", << "Ticket not found" >>),
      Doc("message", << "m" >>) }

ToolErrorStatuses == { 400, 404, 500 }

\* The answers to a request on one resource: 200 with the resource (a
\* ticket of some type, a ticket of type Service Request), 201 with the
\* resource, 200 with text that is no JSON and without content, 204, an error
\* status with each
\* error body, with text and without content, and a transport failure.
ToolResponses ==
    { HttpResponse(200, TRUE, ResourceBody, AbsentLink),
      HttpResponse(200, TRUE, ServiceRequestBody, AbsentLink),
      HttpResponse(201, TRUE, ResourceBody, AbsentLink),
      HttpResponse(200, FALSE, RawText("<html>"), AbsentLink),
      HttpResponse(200, FALSE, RawText(""), AbsentLink),
      HttpResponse(204, FALSE, RawText(""), AbsentLink) }
    \cup { HttpResponse(st, TRUE, b, AbsentLink) :
             st \in ToolErrorStatuses, b \in ErrorBodies }
    \cup { HttpResponse(st, FALSE, RawText(t), AbsentLink) :
             st \in ToolErrorStatuses, t \in { "<html>", "" } }
    \cup { TransportFailure }

\* response.is_success, as raise_for_status() tests it.
Is2xx(s) == s >= 200 /\ s < 300

\* data.get(key, []) on the JSON document of a response.
dict_get(doc, k) == IF doc.key = k THEN doc.list ELSE << >>

\* ------------------------------------------------------------- exceptions

NoException == [type |-> "none", status |-> 0]

ConnectError == [type |-> "ConnectError", status |-> 0]

JSONDecodeError == [type |-> "JSONDecodeError", status |-> 0]

HTTPStatusError(s) == [type |-> "HTTPStatusError", status |-> s]

\* `response = await client.get(...)` then `response.raise_for_status()`:
\* the exception the two statements raise for this answer, if any.
get_and_raise_for_status(resp) ==
    IF resp.kind = "failure" THEN ConnectError
    ELSE IF ~Is2xx(resp.status) THEN HTTPStatusError(resp.status)
    ELSE NoException

\* The same followed by `response.json()`.
get_raise_json(resp) ==
    LET e == get_and_raise_for_status(resp) IN
    IF e # NoException THEN e
    ELSE IF ~resp.json_ok THEN JSONDecodeError
    ELSE NoException

\* ------------------------------------------------------------------- state

\* Slots for tool invocations (coroutines on the event loop).
Invocations == { 1, 2 }

VARIABLES
    op,            \* op[i]: the tool invocation i runs ("" before it is called)
    page,          \* page[i], per_page[i]: the caller's arguments
    per_page,
    pc,            \* "idle", "await" (suspended in client.get), "returned", "raised"
    current_page,  \* the local page cursor of an aggregating loop
    all_items,     \* the local accumulation buffer of an aggregating loop
    result,        \* the value returned, or the exception that left the tool
    sent,          \* the transport's call log: the requests i issued, in order
    outstanding,   \* requests of i the upstream has not answered yet
    response,      \* the answer the upstream handed to i, not yet consumed
    recv,          \* the answers i consumed, in order
    link_header,   \* the argument of a call of parse_link_header
    markers,       \* what that call returned: the page markers
    arguments,     \* arguments[i]: the values the caller passed to a ticket tool
    caller_dict    \* caller_dict[i]: the caller's dictionary object passed as
                   \* ticket_fields (its keys), as it is now

vars ==
    << op, page, per_page, pc, current_page, all_items, result, sent,
       outstanding, response, recv, link_header, markers, arguments,
       caller_dict >>

NoValue == [none |-> TRUE]

\* The tool invocations before the host calls any.
InitInvocations ==
    /\ op = [i \in Invocations |-> ""]
    /\ page = [i \in Invocations |-> None]
    /\ per_page = [i \in Invocations |-> None]
    /\ pc = [i \in Invocations |-> "idle"]
    /\ current_page = [i \in Invocations |-> None]
    /\ all_items = [i \in Invocations |-> << >>]
    /\ result = [i \in Invocations |-> NoValue]
    /\ sent = [i \in Invocations |-> << >>]
    /\ outstanding = [i \in Invocations |-> 0]
    /\ response = [i \in Invocations |-> NoResponse]
    /\ recv = [i \in Invocations |-> << >>]
    /\ arguments = [i \in Invocations |-> NoValue]
    /\ caller_dict = [i \in Invocations |-> { }]

Init ==
    /\ InitInvocations
    /\ link_header = AbsentLink
    /\ markers = NoValue

\* ---------------------------------------------------- how a handler goes on

(* What a handler does from where it stands to its next suspension: it      *)
(* returns a value, an exception leaves it, or it issues a GET and suspends *)
(* in the await.  cp and items are its locals at that point.                *)
Return(v, cp, items) ==
    [act |-> "return", value |-> v, current_page |-> cp, all_items |-> items,
     request |-> NoValue]

Raise(e, cp, items) ==
    [act |-> "raise", value |-> e, current_page |-> cp, all_items |-> items,
     request |-> NoValue]

Get(req, cp, items) ==
    [act |-> "get", value |-> NoValue, current_page |-> cp, all_items |-> items,
     request |-> req]

\* A GET request: the URL's path and the page / per_page query parameters
\* (None for a parameter the request does not carry).
Request(path, p, pp) == [url |-> path, page |-> p, per_page |-> pp]

\* A request with a JSON payload (client.post(url, json=data)).
PostRequest(path, data) ==
    [url |-> path, page |-> None, per_page |-> None, json |-> data]

\* Mutant: with each request the handler also issues, without awaiting the
\* first, the request for the page after it.
StepPrefetch(i, out) ==
    /\ out.act = "get" => Len(sent[i]) + 1 < MaxRequests
    /\ pc' = [pc EXCEPT ![i] =
                 CASE out.act = "get" -> "await"
                   [] out.act = "return" -> "returned"
                   [] OTHER -> "raised"]
    /\ current_page' = [current_page EXCEPT ![i] = out.current_page]
    /\ all_items' = [all_items EXCEPT ![i] = out.all_items]
    /\ result' = [result EXCEPT ![i] = out.value]
    /\ sent' = IF out.act = "get"
               THEN [sent EXCEPT ![i] =
                        @ \o << out.request,
                                [out.request EXCEPT !.page = @ + 1] >>]
               ELSE sent
    /\ outstanding' = IF out.act = "get"
                      THEN [outstanding EXCEPT ![i] = @ + 2]
                      ELSE outstanding

\* Mutant: the accumulation buffer is one module-level list that every
\* invocation appends to.
StepSharedBuffer(i, out) ==
    /\ out.act = "get" => Len(sent[i]) < MaxRequests
    /\ pc' = [pc EXCEPT ![i] =
                 CASE out.act = "get" -> "await"
                   [] out.act = "return" -> "returned"
                   [] OTHER -> "raised"]
    /\ current_page' = [current_page EXCEPT ![i] = out.current_page]
    /\ all_items' = [j \in Invocations |-> out.all_items]
    /\ result' = [result EXCEPT ![i] = out.value]
    /\ sent' = IF out.act = "get"
               THEN [sent EXCEPT ![i] = Append(@, out.request)]
               ELSE sent
    /\ outstanding' = IF out.act = "get"
                      THEN [outstanding EXCEPT ![i] = @ + 1]
                      ELSE outstanding

\* The handler of invocation i goes on as `out` says.  A request is added to
\* the transport's log and is outstanding until the upstream answers it.
Step(i, out) ==
    /\ out.act = "get" => Len(sent[i]) < MaxRequests
    /\ pc' = [pc EXCEPT ![i] =
                 CASE out.act = "get" -> "await"
                   [] out.act = "return" -> "returned"
                   [] OTHER -> "raised"]
    /\ current_page' = [current_page EXCEPT ![i] = out.current_page]
    /\ all_items' = [all_items EXCEPT ![i] = out.all_items]
    /\ result' = [result EXCEPT ![i] = out.value]
    /\ sent' = IF out.act = "get"
               THEN [sent EXCEPT ![i] = Append(@, out.request)]
               ELSE sent
    /\ outstanding' = IF out.act = "get"
                      THEN [outstanding EXCEPT ![i] = @ + 1]
                      ELSE outstanding

\* The host calls tool o with (p, pp) in slot i; the handler runs to `out`.
Call(i, o, p, pp, out) ==
    /\ pc[i] = "idle"
    /\ op' = [op EXCEPT ![i] = o]
    /\ page' = [page EXCEPT ![i] = p]
    /\ per_page' = [per_page EXCEPT ![i] = pp]
    /\ Step(i, out)
    /\ UNCHANGED << response, recv, link_header, markers, arguments, caller_dict >>

\* The same for a tool called with the arguments a; d is the caller's
\* dictionary as the handler leaves it when it suspends or ends.
CallWith(i, o, a, d, out) ==
    /\ pc[i] = "idle"
    /\ op' = [op EXCEPT ![i] = o]
    /\ arguments' = [arguments EXCEPT ![i] = a]
    /\ caller_dict' = [caller_dict EXCEPT ![i] = d]
    /\ Step(i, out)
    /\ UNCHANGED << page, per_page, response, recv, link_header, markers >>

\* The event loop resumes invocation i of tool o with the answer to its
\* request; the handler consumes it and runs to `out`.
Resume(i, o, out) ==
    /\ pc[i] = "await"
    /\ op[i] = o
    /\ response[i] # NoResponse
    /\ Step(i, out)
    /\ response' = [response EXCEPT ![i] = NoResponse]
    /\ recv' = [recv EXCEPT ![i] = Append(@, response[i])]
    /\ UNCHANGED << op, page, per_page, link_header, markers, arguments,
                    caller_dict >>

\* The upstream (or the transport) answers an outstanding request of i with
\* one of the answers in R.
Upstream(i, R) ==
    /\ outstanding[i] > 0
    /\ response[i] = NoResponse
    /\ \E r \in R : response' = [response EXCEPT ![i] = r]
    /\ outstanding' = [outstanding EXCEPT ![i] = @ - 1]
    /\ UNCHANGED << op, page, per_page, pc, current_page, all_items, result,
                    sent, recv, link_header, markers, arguments, caller_dict >>

\* ------------------------------------------------------ list_service_items

\* Mutant: the upper limit of per_page is not checked.
list_service_items_call_no_limit(p, pp) ==
    IF p < 1
    THEN Return([error |-> "Page number must be greater than 0"], None, << >>)
    ELSE IF pp < 1
    THEN Return([error |-> "Page size must be between 1 and 100"], None, << >>)
    ELSE Get(Request("service_catalog/items", p, pp), p, << >>)

list_service_items_call(p, pp) ==
    IF p < 1
    THEN Return([error |-> "Page number must be greater than 0"], None, << >>)
    ELSE IF pp < 1 \/ pp > PerPageLimit
    THEN Return([error |-> "Page size must be between 1 and 100"], None, << >>)
    ELSE Get(Request("service_catalog/items", p, pp), p, << >>)

\* Mutant: a page whose payload is already in the buffer is not added again.
list_service_items_resume_dedup(p, pp, cp, items, resp) ==
    LET e == get_raise_json(resp) IN
    IF e.type = "HTTPStatusError"
    THEN Return([error |-> << "HTTP error occurred: ", e >>], cp, items)
    ELSE IF e # NoException
    THEN Return([error |-> << "Unexpected error: ", e >>], cp, items)
    ELSE LET items2 == IF \E k \in 1..Len(items) : items[k] = resp.body
                       THEN items
                       ELSE Append(items, resp.body)
             pagination_info == parse_link_header(
                                    Link(headers_get_default(resp.link)))
         IN  IF ~Truthy(pagination_info.next)
             THEN Return([success |-> TRUE,
                          items |-> items2,
                          pagination |-> [starting_page |-> p,
                                          per_page |-> pp,
                                          last_fetched_page |-> cp]],
                         cp, items2)
             ELSE Get(Request("service_catalog/items", pagination_info.next, pp),
                      pagination_info.next, items2)

\* Mutant: a failed page returns the error together with the pages fetched
\* so far.
list_service_items_resume_partial(p, pp, cp, items, resp) ==
    LET e == get_raise_json(resp) IN
    IF e.type = "HTTPStatusError"
    THEN Return([error |-> << "HTTP error occurred: ", e >>, items |-> items],
                cp, items)
    ELSE IF e # NoException
    THEN Return([error |-> << "Unexpected error: ", e >>, items |-> items],
                cp, items)
    ELSE LET items2 == Append(items, resp.body)
             pagination_info == parse_link_header(
                                    Link(headers_get_default(resp.link)))
         IN  IF ~Truthy(pagination_info.next)
             THEN Return([success |-> TRUE,
                          items |-> items2,
                          pagination |-> [starting_page |-> p,
                                          per_page |-> pp,
                                          last_fetched_page |-> cp]],
                         cp, items2)
             ELSE Get(Request("service_catalog/items", pagination_info.next, pp),
                      pagination_info.next, items2)

\* The loop with follow-up requests that fall back to the largest page size.
list_service_items_resume_resized(p, pp, cp, items, resp) ==
    LET e == get_raise_json(resp) IN
    IF e.type = "HTTPStatusError"
    THEN Return([error |-> << "HTTP error occurred: ", e >>], cp, items)
    ELSE IF e # NoException
    THEN Return([error |-> << "Unexpected error: ", e >>], cp, items)
    ELSE LET items2 == Append(items, resp.body)
             pagination_info == parse_link_header(
                                    Link(headers_get_default(resp.link)))
         IN  IF ~Truthy(pagination_info.next)
             THEN Return([success |-> TRUE,
                          items |-> items2,
                          pagination |-> [starting_page |-> p,
                                          per_page |-> pp,
                                          last_fetched_page |-> cp]],
                         cp, items2)
             ELSE Get(Request("service_catalog/items", pagination_info.next,
                              PerPageLimit),
                      pagination_info.next, items2)

\* One iteration of the `while True` loop, from the answer to the request.
list_service_items_resume(p, pp, cp, items, resp) ==
    LET e == get_raise_json(resp) IN
    IF e.type = "HTTPStatusError"
    THEN Return([error |-> << "HTTP error occurred: ", e >>], cp, items)
    ELSE IF e # NoException
    THEN Return([error |-> << "Unexpected error: ", e >>], cp, items)
    ELSE LET items2 == Append(items, resp.body)
             pagination_info == parse_link_header(
                                    Link(headers_get_default(resp.link)))
         IN  IF ~Truthy(pagination_info.next)
             THEN Return([success |-> TRUE,
                          items |-> items2,
                          pagination |-> [starting_page |-> p,
                                          per_page |-> pp,
                                          last_fetched_page |-> cp]],
                         cp, items2)
             ELSE Get(Request("service_catalog/items", pagination_info.next, pp),
                      pagination_info.next, items2)

list_service_items(i, p, pp) ==
    Call(i, "list_service_items", p, pp, list_service_items_call(p, pp))

list_service_items_await(i) ==
    Resume(i, "list_service_items",
          list_service_items_resume(page[i], per_page[i], current_page[i],
                                    all_items[i], response[i]))

\* ----------------------------------------------------------- filter_agents

filter_agents_call ==
    Get(Request("agents?query", 1, None), 1, << >>)

\* Mutant: the loop counts pages itself and goes on when the header names no
\* next page.
filter_agents_resume_counting(cp, items, resp) ==
    LET e == get_raise_json(resp) IN
    IF e # NoException
    THEN Raise(e, cp, items)
    ELSE LET items2 == items \o dict_get(resp.body, "agents")
         IN  Get(Request("agents?query", cp + 1, None), cp + 1, items2)

\* One iteration of the `while True` loop; nothing is caught.
filter_agents_resume(cp, items, resp) ==
    LET e == get_raise_json(resp) IN
    IF e # NoException
    THEN Raise(e, cp, items)
    ELSE LET items2 == items \o dict_get(resp.body, "agents")
             pagination == parse_link_header(resp.link)
         IN  IF ~Truthy(pagination.next)
             THEN Return(items2, cp, items2)
             ELSE Get(Request("agents?query", pagination.next, None),
                      pagination.next, items2)

filter_agents(i) ==
    Call(i, "filter_agents", None, None, filter_agents_call)

filter_agents_await(i) ==
    Resume(i, "filter_agents",
          filter_agents_resume(current_page[i], all_items[i], response[i]))

\* ------------------------------------------------------- get_ticket_fields

get_ticket_fields_call ==
    Get(Request("ticket_form_fields", None, None), None, << >>)

\* `response = await client.get(...)`, `return response.json()`: no status
\* check and nothing caught.
get_ticket_fields_resume(resp) ==
    IF resp.kind = "failure" THEN Raise(ConnectError, None, << >>)
    ELSE IF ~resp.json_ok THEN Raise(JSONDecodeError, None, << >>)
    ELSE Return(resp.body, None, << >>)

get_ticket_fields(i) ==
    Call(i, "get_ticket_fields", None, None, get_ticket_fields_call)

get_ticket_fields_await(i) ==
    Resume(i, "get_ticket_fields", get_ticket_fields_resume(response[i]))

\* ------------------------------------------------------------- get_tickets

get_tickets_call(p, pp) ==
    IF p < 1
    THEN Return([error |-> "Page number must be greater than 0"], None, << >>)
    ELSE IF pp < 1 \/ pp > PerPageLimit
    THEN Return([error |-> "Page size must be between 1 and 100"], None, << >>)
    ELSE Get(Request("tickets", p, pp), None, << >>)

\* Mutant: a failed request is issued again.
get_tickets_resume_retry(p, pp, resp) ==
    LET e == get_raise_json(resp) IN
    IF e.type \in { "HTTPStatusError", "ConnectError" }
    THEN Get(Request("tickets", p, pp), None, << >>)
    ELSE IF e # NoException
    THEN Return([error |-> << "An unexpected error occurred: ", e >>], None, << >>)
    ELSE LET pagination_info == parse_link_header(
                                    Link(headers_get_default(resp.link)))
         IN  Return([tickets |-> resp.body,
                     pagination |-> [current_page |-> p,
                                     next_page |-> pagination_info.next,
                                     prev_page |-> pagination_info.prev,
                                     per_page |-> pp]],
                    None, << >>)

get_tickets_resume(p, pp, resp) ==
    LET e == get_raise_json(resp) IN
    IF e.type = "HTTPStatusError"
    THEN Return([error |-> << "Failed to fetch tickets: ", e >>], None, << >>)
    ELSE IF e # NoException
    THEN Return([error |-> << "An unexpected error occurred: ", e >>], None, << >>)
    ELSE LET pagination_info == parse_link_header(
                                    Link(headers_get_default(resp.link)))
         IN  Return([tickets |-> resp.body,
                     pagination |-> [current_page |-> p,
                                     next_page |-> pagination_info.next,
                                     prev_page |-> pagination_info.prev,
                                     per_page |-> pp]],
                    None, << >>)

get_tickets(i, p, pp) ==
    Call(i, "get_tickets", p, pp, get_tickets_call(p, pp))

get_tickets_await(i) ==
    Resume(i, "get_tickets",
          get_tickets_resume(page[i], per_page[i], response[i]))

\* -------------------------------------------------------- get_all_products

get_all_products_call(p, pp) ==
    IF p < 1
    THEN Return([error |-> "Page number must be greater than 0"], None, << >>)
    ELSE IF pp < 1 \/ pp > PerPageLimit
    THEN Return([error |-> "Page size must be between 1 and 100"], None, << >>)
    ELSE Get(Request("products", p, pp), None, << >>)

get_all_products_resume(p, pp, resp) ==
    LET e == get_raise_json(resp) IN
    IF e.type = "HTTPStatusError"
    THEN Return([success |-> FALSE,
                 error |-> << "HTTP error occurred: ", e >>], None, << >>)
    ELSE IF e # NoException
    THEN Return([success |-> FALSE,
                 error |-> << "Unexpected error occurred: ", e >>], None, << >>)
    ELSE LET products == dict_get(resp.body, "products")
             pagination_info == parse_link_header(
                                    Link(headers_get_default(resp.link)))
             next_page == pagination_info.next
         IN  Return([success |-> TRUE,
                     products |-> products,
                     pagination |-> [current_page |-> p,
                                     next_page |-> next_page,
                                     has_next |-> Truthy(next_page),
                                     per_page |-> pp]],
                    None, << >>)

get_all_products(i, p, pp) ==
    Call(i, "get_all_products", p, pp, get_all_products_call(p, pp))

get_all_products_await(i) ==
    Resume(i, "get_all_products",
          get_all_products_resume(page[i], per_page[i], response[i]))

\* ------------------------------------------------------ get_all_requesters

get_all_requesters_call(p, pp) ==
    IF p < 1
    THEN Return([success |-> FALSE,
                 error |-> "Page number must be greater than 0"], None, << >>)
    ELSE IF pp < 1 \/ pp > PerPageLimit
    THEN Return([success |-> FALSE,
                 error |-> "Page size must be between 1 and 100"], None, << >>)
    ELSE Get(Request("requesters", p, pp), None, << >>)

get_all_requesters_resume(p, pp, resp) ==
    LET e == get_raise_json(resp) IN
    IF e.type = "HTTPStatusError"
    THEN Return([success |-> FALSE, error |-> << "HTTP error: ", e >>],
                None, << >>)
    ELSE IF e # NoException
    THEN Return([success |-> FALSE, error |-> << "Unexpected error: ", e >>],
                None, << >>)
    ELSE LET requesters == dict_get(resp.body, "requesters")
             pagination_info == parse_link_header(
                                    Link(headers_get_default(resp.link)))
         IN  Return([success |-> TRUE,
                     requesters |-> requesters,
                     pagination |-> [current_page |-> p,
                                     per_page |-> pp,
                                     next_page |-> pagination_info.next,
                                     prev_page |-> pagination_info.prev,
                                     has_more |-> pagination_info.next # None]],
                    None, << >>)

get_all_requesters(i, p, pp) ==
    Call(i, "get_all_requesters", p, pp, get_all_requesters_call(p, pp))

get_all_requesters_await(i) ==
    Resume(i, "get_all_requesters",
          get_all_requesters_resume(page[i], per_page[i], response[i]))

\* ---------------------------------------------------------- get_all_agents

get_all_agents_call(p, pp) ==
    IF p < 1
    THEN Return([success |-> FALSE,
                 error |-> "Page number must be greater than 0"], None, << >>)
    ELSE IF pp < 1 \/ pp > PerPageLimit
    THEN Return([success |-> FALSE,
                 error |-> "Page size must be between 1 and 100"], None, << >>)
    ELSE Get(Request("agents", p, pp), None, << >>)

\* Only httpx.HTTPStatusError is caught: a transport failure and a body that
\* is not JSON leave the tool as exceptions.
get_all_agents_resume(p, pp, resp) ==
    LET e == get_raise_json(resp) IN
    IF e.type = "HTTPStatusError"
    THEN Return([error |-> << "Failed to create solution folder: ", e >>,
                 status_code |-> resp.status,
                 details |-> IF resp.json_ok
                             THEN [json |-> resp.body]
                             ELSE [text |-> resp.body]],
                None, << >>)
    ELSE IF e # NoException
    THEN Raise(e, None, << >>)
    ELSE LET agents == dict_get(resp.body, "agents")
             pagination_info == parse_link_header(
                                    Link(headers_get_default(resp.link)))
         IN  Return([success |-> TRUE,
                     agents |-> agents,
                     pagination |-> [current_page |-> p,
                                     per_page |-> pp,
                                     next_page |-> pagination_info.next,
                                     prev_page |-> pagination_info.prev,
                                     has_more |-> pagination_info.next # None]],
                    None, << >>)

get_all_agents(i, p, pp) ==
    Call(i, "get_all_agents", p, pp, get_all_agents_call(p, pp))

get_all_agents_await(i) ==
    Resume(i, "get_all_agents",
          get_all_agents_resume(page[i], per_page[i], response[i]))

\* ------------------------------------------------ get_all_requester_groups

get_all_requester_groups_call(p, pp) ==
    IF p < 1
    THEN Return([error |-> "Page number must be greater than 0"], None, << >>)
    ELSE IF pp < 1 \/ pp > PerPageLimit
    THEN Return([error |-> "Page size must be between 1 and 100"], None, << >>)
    ELSE Get(Request("requester_groups", p, pp), None, << >>)

get_all_requester_groups_resume(p, pp, resp) ==
    LET e == get_raise_json(resp) IN
    IF e.type = "HTTPStatusError"
    THEN Return([error |-> << "Failed to fetch all requester groups: ", e >>],
                None, << >>)
    ELSE IF e # NoException
    THEN Return([error |-> << "An unexpected error occurred: ", e >>],
                None, << >>)
    ELSE LET pagination_info == parse_link_header(
                                    Link(headers_get_default(resp.link)))
         IN  Return([success |-> TRUE,
                     requester_groups |-> resp.body,
                     pagination |-> [current_page |-> p,
                                     next_page |-> pagination_info.next,
                                     prev_page |-> pagination_info.prev,
                                     per_page |-> pp]],
                    None, << >>)

get_all_requester_groups(i, p, pp) ==
    Call(i, "get_all_requester_groups", p, pp, get_all_requester_groups_call(p, pp))

get_all_requester_groups_await(i) ==
    Resume(i, "get_all_requester_groups",
          get_all_requester_groups_resume(page[i], per_page[i], response[i]))

(* The tools below work on one resource.  A Python string built by an       *)
(* f-string is the tuple of its literal text and the value formatted into   *)
(* it; a tool that returns a str returns [str |-> that tuple].  str(e) of   *)
(* an exception e is e.                                                     *)

\* ---------------------------------------------------------- filter_tickets

filter_tickets_call(p) == Get(Request("tickets/filter", p, None), None, << >>)

\* Only httpx.HTTPStatusError is caught; the body of the error response is
\* parsed inside a try of its own.
filter_tickets_resume(resp) ==
    LET e == get_raise_json(resp) IN
    IF e.type = "HTTPStatusError"
    THEN IF resp.json_ok
         THEN Return([error |-> << "", e >>, details |-> resp.body], None, << >>)
         ELSE Return([error |-> << "", e >>, raw_response |-> response_text(resp)],
                     None, << >>)
    ELSE IF e # NoException THEN Raise(e, None, << >>)
    ELSE Return(resp.body, None, << >>)

filter_tickets(i, p) ==
    Call(i, "filter_tickets", p, None, filter_tickets_call(p))

filter_tickets_await(i) ==
    Resume(i, "filter_tickets", filter_tickets_resume(response[i]))

\* ----------------------------------------------------- get_canned_response

get_canned_response_call ==
    Get(Request("canned_responses/1", None, None), None, << >>)

\* The handler of HTTPStatusError calls e.response.json() outside any try:
\* what it raises leaves the tool (the except clauses of the same try do
\* not catch it).
get_canned_response_resume(resp) ==
    LET e == get_and_raise_for_status(resp) IN
    IF e.type = "HTTPStatusError"
    THEN IF resp.status = 404
         THEN Return([error |-> << "Canned response not found (404)" >>],
                     None, << >>)
         ELSE IF ~resp.json_ok THEN Raise(JSONDecodeError, None, << >>)
         ELSE Return([error |-> << "Failed to retrieve canned response: ", e >>,
                      details |-> resp.body], None, << >>)
    ELSE IF e # NoException
    THEN Return([error |-> << "Unexpected error: ", e >>], None, << >>)
    ELSE IF content_empty(resp)
    THEN Return([error |->
                   << "No content returned for the requested canned response." >>],
                None, << >>)
    ELSE IF ~resp.json_ok
    THEN Return([error |-> << "Unexpected error: ", JSONDecodeError >>],
                None, << >>)
    ELSE Return(resp.body, None, << >>)

get_canned_response(i) ==
    Call(i, "get_canned_response", None, None, get_canned_response_call)

get_canned_response_await(i) ==
    Resume(i, "get_canned_response", get_canned_response_resume(response[i]))

\* ---------------------------------------------------------- create_product

\* allowed_statuses: the integers among its keys.
allowed_statuses == { 1, 2, 3 }

create_product_call(status) ==
    IF status # None /\ status \notin allowed_statuses
    THEN Return([success |-> FALSE,
                 error |-> << "Invalid 'status'. It should be one of: [\"In Production\", 1], [\"In Pipeline\", 2], [\"Retired\", 3]" >>],
                None, << >>)
    ELSE Get(Request("POST products", None, None), None, << >>)

\* The handler of HTTPStatusError calls response.json() outside any try.
create_product_resume(resp) ==
    LET e == get_raise_json(resp) IN
    IF e.type = "HTTPStatusError"
    THEN IF ~resp.json_ok THEN Raise(JSONDecodeError, None, << >>)
         ELSE Return([success |-> FALSE,
                      status_code |-> resp.status,
                      error |-> << "HTTP error occurred: ", e >>,
                      response |-> resp.body], None, << >>)
    ELSE IF e # NoException
    THEN Return([success |-> FALSE,
                 error |-> << "An unexpected error occurred: ", e >>],
                None, << >>)
    ELSE Return([success |-> TRUE, data |-> resp.body], None, << >>)

create_product(i, status) ==
    Call(i, "create_product", None, None, create_product_call(status))

create_product_await(i) ==
    Resume(i, "create_product", create_product_resume(response[i]))

\* ----------------------------------------------------------- delete_ticket

delete_ticket_call == Get(Request("DELETE tickets/1", None, None), None, << >>)

\* No try around the request; the status is tested, not raised.
delete_ticket_resume(resp) ==
    IF resp.kind = "failure" THEN Raise(ConnectError, None, << >>)
    ELSE IF resp.status = 204
    THEN Return([str |-> << "Ticket deleted successfully" >>], None, << >>)
    ELSE IF resp.status = 404
    THEN Return([str |-> << "Error: Ticket not found" >>], None, << >>)
    ELSE IF ~resp.json_ok
    THEN Return([str |-> << "Error: Unexpected response format" >>], None, << >>)
    ELSE IF resp.body.key = "error"
    THEN Return([str |-> << "Error: " \o resp.body.list[1] >>], None, << >>)
    ELSE Return([str |-> << "Error: Failed to delete ticket" >>], None, << >>)

delete_ticket(i) == Call(i, "delete_ticket", None, None, delete_ticket_call)

delete_ticket_await(i) ==
    Resume(i, "delete_ticket", delete_ticket_resume(response[i]))

\* ---------------------------------------------------- get_solution_article

get_solution_article_call ==
    Get(Request("solutions/articles/1", None, None), None, << >>)

get_solution_article_resume(resp) ==
    LET e == get_raise_json(resp) IN
    IF e.type = "HTTPStatusError"
    THEN Return([error |-> << "Failed to fetch solution article: ", e >>,
                 status_code |-> resp.status,
                 details |-> IF resp.json_ok THEN resp.body
                             ELSE response_text(resp)], None, << >>)
    ELSE IF e # NoException
    THEN Return([error |-> << "Unexpected error occurred: ", e >>], None, << >>)
    ELSE Return(resp.body, None, << >>)

get_solution_article(i) ==
    Call(i, "get_solution_article", None, None, get_solution_article_call)

get_solution_article_await(i) ==
    Resume(i, "get_solution_article", get_solution_article_resume(response[i]))

\* ------------------------------------------------------ get_requested_items

\* The value of a call that ends without a return statement.
ImplicitNone == [value |-> "None"]

\* ticket_data.get("ticket", {}).get("type")
ticket_type(doc) ==
    IF doc.key = "ticket" /\ doc.list # << >> THEN doc.list[1] ELSE ""

get_requested_items_call ==
    Get(Request("tickets/1", None, None), None, << >>)

\* The nested get_ticket, from the answer to its request.
get_ticket_resume(resp) ==
    LET e == get_raise_json(resp) IN
    IF e.type = "HTTPStatusError"
    THEN [success |-> FALSE, error |-> << "HTTP error occurred: ", e >>]
    ELSE IF e # NoException
    THEN [success |-> FALSE, error |-> << "An unexpected error occurred: ", e >>]
    ELSE IF ticket_type(resp.body) # "Service Request"
    THEN [success |-> FALSE,
          error |-> << "Requested items can only be fetched for service requests",
                       NoException >>]
    ELSE [success |-> TRUE, ticket_type |-> "Service Request"]

\* The second try block, from the answer to the requested_items request: the
\* status is tested before response.json(), and a 2xx other than 200 leaves
\* the try without a return.
requested_items_resume(resp) ==
    LET e == get_and_raise_for_status(resp) IN
    IF e.type = "HTTPStatusError"
    THEN IF resp.status = 400
         THEN Return([success |-> FALSE,
                      error |-> << "There are no service items for this ticket",
                                   NoException >>], None, << >>)
         ELSE Return([success |-> FALSE,
                      error |-> << "HTTP error occurred: ", e >>], None, << >>)
    ELSE IF e # NoException
    THEN Return([success |-> FALSE,
                 error |-> << "An unexpected error occurred: ", e >>], None, << >>)
    ELSE IF resp.status = 200
    THEN IF resp.json_ok
         THEN Return(resp.body, None, << >>)
         ELSE Return([success |-> FALSE,
                      error |-> << "An unexpected error occurred: ",
                                   JSONDecodeError >>], None, << >>)
    ELSE Return(ImplicitNone, None, << >>)

\* Mutant: the requested items are requested for a ticket of any type.
get_requested_items_resume_untyped(url, resp) ==
    IF url = "tickets/1"
    THEN LET ticket_check == get_ticket_resume(resp) IN
         IF ~ticket_check.success
              /\ Head(ticket_check.error)
                    # "Requested items can only be fetched for service requests"
         THEN Return(ticket_check, None, << >>)
         ELSE Get(Request("tickets/1/requested_items", None, None), None, << >>)
    ELSE requested_items_resume(resp)

\* url: the URL of the request that was answered.
get_requested_items_resume(url, resp) ==
    IF url = "tickets/1"
    THEN LET ticket_check == get_ticket_resume(resp) IN
         IF ~ticket_check.success
         THEN Return(ticket_check, None, << >>)
         ELSE Get(Request("tickets/1/requested_items", None, None), None, << >>)
    ELSE requested_items_resume(resp)

get_requested_items(i) ==
    Call(i, "get_requested_items", None, None, get_requested_items_call)

get_requested_items_await(i) ==
    Resume(i, "get_requested_items",
          get_requested_items_resume(sent[i][Len(sent[i])].url, response[i]))

\* ----------------------------------------------------------- create_ticket

\* An argument typed Union[int, str]: an int n, or a str whose int() is n
\* (n = None when int() raises ValueError).
PyInt(n) == [type |-> "int", text |-> "", n |-> n]

PyStr(t, n) == [type |-> "str", text |-> t, n |-> n]

\* The values of the enumerations TicketSource, TicketPriority, TicketStatus.
TicketSource == { 1, 2, 3, 6, 7, 8, 9, 10, 12, 13, 14, 15, 18 }

TicketPriority == 1..4

TicketStatus == 2..5

\* The names the docstring of create_ticket gives for the values.
DocumentedSource ==
    [email |-> 1, portal |-> 2, phone |-> 3, yammer |-> 6, chat |-> 7,
     aws_cloudwatch |-> 7, pagerduty |-> 8, walk_up |-> 9, slack |-> 10,
     workplace |-> 12, employee_onboarding |-> 13, alerts |-> 14,
     ms_teams |-> 15, employee_offboarding |-> 18]

DocumentedPriority == [low |-> 1, medium |-> 2, high |-> 3, urgent |-> 4]

DocumentedStatus == [open |-> 2, pending |-> 3, resolved |-> 4, closed |-> 5]

\* data: the payload of the POST; email "" and requester_id None stand for
\* a key that is not set.
create_ticket_data(a) ==
    [source |-> a.source.n, priority |-> a.priority.n, status |-> a.status.n,
     email |-> a.email,
     requester_id |-> IF Truthy(a.requester_id) THEN a.requester_id ELSE None]

\* Mutant: email and requester_id are not looked at.
create_ticket_call_unchecked(a) ==
    IF None \in { a.source.n, a.priority.n, a.status.n }
    THEN Return([str |-> << "Error: Invalid value for source, priority, or status" >>],
                None, << >>)
    ELSE IF \/ a.source.n \notin TicketSource
            \/ a.priority.n \notin TicketPriority
            \/ a.status.n \notin TicketStatus
    THEN Return([str |-> << "Error: Invalid value for source, priority, or status" >>],
                None, << >>)
    ELSE Get(PostRequest("POST tickets", create_ticket_data(a)), None, << >>)

\* a: the arguments source, priority, status, email ("" for None) and
\* requester_id.  int() of a str that is no number raises ValueError.
create_ticket_call(a) ==
    IF a.email = "" /\ ~Truthy(a.requester_id)
    THEN Return([str |-> << "Error: Either email or requester_id must be provided" >>],
                None, << >>)
    ELSE IF None \in { a.source.n, a.priority.n, a.status.n }
    THEN Return([str |-> << "Error: Invalid value for source, priority, or status" >>],
                None, << >>)
    ELSE IF \/ a.source.n \notin TicketSource
            \/ a.priority.n \notin TicketPriority
            \/ a.status.n \notin TicketStatus
    THEN Return([str |-> << "Error: Invalid value for source, priority, or status" >>],
                None, << >>)
    ELSE Get(PostRequest("POST tickets", create_ticket_data(a)), None, << >>)

\* On a 400 the handler of HTTPStatusError calls e.response.json() outside
\* any try; a 400 whose body has no "errors" falls through to the message of
\* every other status.
create_ticket_resume(resp) ==
    LET e == get_raise_json(resp) IN
    IF e.type = "HTTPStatusError"
    THEN IF resp.status = 400 /\ ~resp.json_ok
         THEN Raise(JSONDecodeError, None, << >>)
         ELSE IF resp.status = 400 /\ resp.body.key = "errors"
         THEN Return([str |-> << "Validation Error: ", resp.body.list >>],
                     None, << >>)
         ELSE Return([str |-> << "Error: Failed to create ticket - ", e >>],
                     None, << >>)
    ELSE IF e # NoException
    THEN Return([str |-> << "Error: An unexpected error occurred - ", e >>],
                None, << >>)
    ELSE Return([str |-> << "Ticket created successfully: ", resp.body >>],
                None, << >>)

create_ticket(i, a) ==
    CallWith(i, "create_ticket", a, caller_dict[i], create_ticket_call(a))

create_ticket_await(i) ==
    Resume(i, "create_ticket", create_ticket_resume(response[i]))

\* ----------------------------------------------------------- update_ticket

\* ticket_fields: the keys of the caller's dictionary.
update_ticket_call(ticket_fields) ==
    IF ticket_fields = { }
    THEN Return([error |-> << "No fields provided for update" >>], None, << >>)
    ELSE Get(Request("PUT tickets/1", None, None), None, << >>)

\* For every error status the body is parsed inside a try of its own, and
\* its "errors", when it has any, make the message.
update_ticket_resume(resp) ==
    LET e == get_raise_json(resp) IN
    IF e.type = "HTTPStatusError"
    THEN Return([success |-> FALSE,
                 error |-> IF resp.json_ok /\ resp.body.key = "errors"
                           THEN << "Validation errors: ", resp.body.list >>
                           ELSE << "Failed to update ticket: ", e >>],
                None, << >>)
    ELSE IF e # NoException
    THEN Return([success |-> FALSE,
                 error |-> << "An unexpected error occurred: ", e >>],
                None, << >>)
    ELSE Return([success |-> TRUE,
                 message |-> << "Ticket updated successfully" >>,
                 ticket |-> resp.body], None, << >>)

\* ticket_fields.pop('custom_fields', {}): the caller's dictionary after
\* the handler ran up to the request (an empty dictionary returns before).
update_ticket_pop(ticket_fields) ==
    IF ticket_fields = { } THEN ticket_fields
    ELSE ticket_fields \ { "custom_fields" }

update_ticket(i, ticket_fields) ==
    CallWith(i, "update_ticket", ticket_fields, update_ticket_pop(ticket_fields),
             update_ticket_call(ticket_fields))

update_ticket_await(i) ==
    Resume(i, "update_ticket", update_ticket_resume(response[i]))

\* ------------------------------------------------------------------- specs

\* The arguments a caller passes to a paged operation.
PageArgs == 0..MaxPage

PerPageArgs == { 0, 1, PerPageLimit, PerPageLimit + 1 }

\* One invocation at a time, every operation, every answer of the upstream.
Solo == { 1 }

Next ==
    \E i \in Solo :
        \/ \E p \in PageArgs, pp \in PerPageArgs : list_service_items(i, p, pp)
        \/ list_service_items_await(i)
        \/ filter_agents(i)
        \/ filter_agents_await(i)
        \/ get_ticket_fields(i)
        \/ get_ticket_fields_await(i)
        \/ \E p \in PageArgs, pp \in PerPageArgs : get_tickets(i, p, pp)
        \/ get_tickets_await(i)
        \/ \E p \in PageArgs, pp \in PerPageArgs : get_all_products(i, p, pp)
        \/ get_all_products_await(i)
        \/ \E p \in PageArgs, pp \in PerPageArgs : get_all_requesters(i, p, pp)
        \/ get_all_requesters_await(i)
        \/ \E p \in PageArgs, pp \in PerPageArgs : get_all_agents(i, p, pp)
        \/ get_all_agents_await(i)
        \/ \E p \in PageArgs, pp \in PerPageArgs : get_all_requester_groups(i, p, pp)
        \/ get_all_requester_groups_await(i)
        \/ Upstream(i, Responses)

Spec == Init /\ [][Next]_vars

\* The network answers every request (Upstream), and the event loop resumes
\* every coroutine whose awaited answer has arrived.
Awaits(i) ==
    \/ list_service_items_await(i)
    \/ filter_agents_await(i)
    \/ get_ticket_fields_await(i)
    \/ get_tickets_await(i)
    \/ get_all_products_await(i)
    \/ get_all_requesters_await(i)
    \/ get_all_agents_await(i)
    \/ get_all_requester_groups_await(i)

FairSpec ==
    /\ Spec
    /\ \A i \in Solo : WF_vars(Upstream(i, Responses)) /\ WF_vars(Awaits(i))

\* Two invocations of the aggregators on the event loop at once, interleaved
\* at their await points; the upstream answers with a page that names page 2
\* as next, a last page, a 500 or a transport failure.
ConcResponses ==
    { HttpResponse(200, TRUE, b, l) :
         b \in Bodies, l \in { AbsentLink, Link(NextEntry(2)) } }
    \cup { HttpResponse(500, FALSE, NoDoc, AbsentLink), TransportFailure }

NextConc ==
    \E i \in Invocations :
        \/ \E p \in 1..MaxPage : list_service_items(i, p, 1)
        \/ list_service_items_await(i)
        \/ filter_agents(i)
        \/ filter_agents_await(i)
        \/ Upstream(i, ConcResponses)

SpecConc == Init /\ [][NextConc]_vars

\* The tools on one resource, one invocation at a time, against every
\* answer in ToolResponses.
\* The documented integers and names, an integer that is not documented and
\* a str that holds a number.
SourceArgs ==
    { PyInt(n) : n \in TicketSource }
    \cup { PyStr(name, None) : name \in DOMAIN DocumentedSource }
    \cup { PyInt(5), PyStr("2", 2) }

PriorityArgs ==
    { PyInt(n) : n \in TicketPriority }
    \cup { PyStr(name, None) : name \in DOMAIN DocumentedPriority }
    \cup { PyInt(0) }

StatusArgs ==
    { PyInt(n) : n \in TicketStatus }
    \cup { PyStr(name, None) : name \in DOMAIN DocumentedStatus }
    \cup { PyInt(1) }

\* One of source, priority and status varies at a time.
CreateTicketArgs ==
    [source : SourceArgs, priority : { PyInt(1) }, status : { PyInt(2) },
     email : { "", "a@x" }, requester_id : { None, 7 }]
    \cup [source : { PyInt(2) }, priority : PriorityArgs, status : { PyInt(2) },
          email : { "", "a@x" }, requester_id : { None, 7 }]
    \cup [source : { PyInt(2) }, priority : { PyInt(3) }, status : StatusArgs,
          email : { "", "a@x" }, requester_id : { None, 7 }]

TicketFieldsArgs ==
    { { }, { "subject" }, { "custom_fields" }, { "subject", "custom_fields" } }

ProductStatusArgs == { None, 1, 4 }

ToolAwaits(i) ==
    \/ filter_tickets_await(i)
    \/ get_canned_response_await(i)
    \/ create_product_await(i)
    \/ delete_ticket_await(i)
    \/ get_solution_article_await(i)
    \/ create_ticket_await(i)
    \/ update_ticket_await(i)
    \/ get_requested_items_await(i)

NextTools ==
    \E i \in Solo :
        \/ \E p \in PageArgs : filter_tickets(i, p)
        \/ get_canned_response(i)
        \/ \E status \in ProductStatusArgs : create_product(i, status)
        \/ delete_ticket(i)
        \/ get_solution_article(i)
        \/ \E a \in CreateTicketArgs : create_ticket(i, a)
        \/ \E ticket_fields \in TicketFieldsArgs : update_ticket(i, ticket_fields)
        \/ get_requested_items(i)
        \/ ToolAwaits(i)
        \/ Upstream(i, ToolResponses)

SpecTools == Init /\ [][NextTools]_vars

(* parse_link_header on its own: called once with a header, it returns.    *)
(* The headers are up to MaxEntries entries joined by ", ": entries with    *)
(* rel next, prev, last and first, URLs with a page parameter, with page    *)
(* and per_page in both orders, with no page parameter and with a page      *)
(* parameter that has no digits, and text that is no entry at all.          *)
rel_last == << "l", "a", "s", "t" >>

rel_first == << "f", "i", "r", "s", "t" >>

PerPageParam(p) == << "p", "e", "r", "_" >> \o PageParam(p)

\* per_page=P&page=N, P # N.
PerPageThenPage == url_base \o PerPageParam(1) \o << "&" >> \o PageParam(2)

\* page=N&per_page=P, P # N.
PageThenPerPage == url_base \o PageParam(2) \o << "&" >> \o PerPageParam(1)

NoPageUrl == url_base \o << "q", "=", "1" >>

NoDigitsUrl == url_base \o page_literal \o << "x" >>

Garbage == << "g", "a", "r", "b", "a", "g", "e" >>

NextEntries == { NextEntry(p) : p \in 0..(MaxPage + 1) }

PrevEntries == { PrevEntry(p) : p \in 0..MaxPage }

OtherRelEntries ==
    { LinkEntry(url_base \o PageParam(MaxPage), rel_last),
      LinkEntry(url_base \o PageParam(1), rel_first) }

PerPageEntries ==
    { LinkEntry(PerPageThenPage, rel_next), LinkEntry(PageThenPerPage, rel_next) }

NoPageEntries ==
    { LinkEntry(url, rel) :
        url \in { NoPageUrl, NoDigitsUrl }, rel \in { rel_next, rel_prev } }

LinkEntries ==
    NextEntries \cup PrevEntries \cup OtherRelEntries \cup PerPageEntries
        \cup NoPageEntries \cup { Garbage }

RECURSIVE join(_)
join(links) ==
    IF links = << >> THEN << >>
    ELSE IF Len(links) = 1 THEN links[1]
    ELSE links[1] \o << ",", " " >> \o join(Tail(links))

\* The headers that hold two entries of one relation, first before last, and
\* one entry of the other relation at each place.
Orders(first, last, other) ==
    { Link(join(<< other, first, last >>)),
      Link(join(<< first, other, last >>)),
      Link(join(<< first, last, other >>)) }

RepeatedRelHeaders ==
    UNION { Orders(NextEntry(a), NextEntry(b), PrevEntry(m))
              \cup Orders(PrevEntry(a), PrevEntry(b), NextEntry(m)) :
            a \in 1..MaxPage, b \in 1..MaxPage, m \in 1..MaxPage }

LinkHeaders ==
    { AbsentLink } \cup
    { Link(join(links)) :
        links \in UNION { [1..n -> LinkEntries] : n \in 0..MaxEntries } }
    \cup RepeatedRelHeaders

InitParse ==
    /\ InitInvocations
    /\ link_header \in LinkHeaders
    /\ markers = NoValue

ParseLinkHeader ==
    /\ markers = NoValue
    /\ markers' = parse_link_header(link_header)
    /\ UNCHANGED << op, page, per_page, pc, current_page, all_items, result,
                    sent, outstanding, response, recv, link_header, arguments,
                    caller_dict >>

NextParse == ParseLinkHeader

SpecParse == InitParse /\ [][NextParse]_vars


\* ------------------------------------------------------------------ claims

PagedOps ==
    { "list_service_items", "get_tickets", "get_all_products",
      "get_all_requesters", "get_all_agents", "get_all_requester_groups" }

Aggregators == { "list_service_items", "filter_agents" }

Ended(i) == pc[i] \in { "returned", "raised" }

\* An answer that is a page: a 2xx response whose body is JSON.
IsPage(resp) == resp.kind = "response" /\ Is2xx(resp.status) /\ resp.json_ok

\* An answer that is a failed request: a transport failure or a non-2xx status.
IsFailure(resp) ==
    resp.kind = "failure" \/ (resp.kind = "response" /\ ~Is2xx(resp.status))

\* The text rel="next".
rel_next_text == rel_literal \o rel_next \o << "\"" >>

\* The Link header of the answer has an entry <url?page=N>; rel="next" with
\* a page number N (page numbers are positive integers).
AdvertisesNext(resp) ==
    /\ resp.link.present
    /\ \E k \in 1..Len(split(resp.link.value)) :
          \E n \in 1..(MaxPage + 1) : split(resp.link.value)[k] = NextEntry(n)

\* The answer has no Link header, or the text rel="next" is nowhere in it.
OmitsNext(resp) ==
    \/ ~resp.link.present
    \/ \A k \in 1..Len(resp.link.value) :
          ~StartsWith(resp.link.value, k, rel_next_text)

\* C1: a paged operation called with page < 1, per_page < 1 or per_page > 100
\* returns an error value and issues no HTTP request.
C1_InvalidPagingRejected ==
    \A i \in Invocations :
        (/\ op[i] \in PagedOps
         /\ (page[i] < 1 \/ per_page[i] < 1 \/ per_page[i] > 100))
        => /\ pc[i] = "returned"
           /\ "error" \in DOMAIN result[i]
           /\ sent[i] = << >>
           /\ outstanding[i] = 0

C1_Witness ==
    \E i \in Invocations :
        /\ op[i] = "list_service_items"
        /\ page[i] >= 1
        /\ per_page[i] = 101
        /\ pc[i] = "returned"

\* C2: when the upstream serves N pages to list_service_items, the first N-1
\* advertising a next page and the N-th omitting it, the operation returns
\* success and 'items' holds exactly the N payloads in the order of arrival,
\* duplicates kept.
C2_AllPagesInOrder ==
    \A i \in Invocations :
        (/\ op[i] = "list_service_items"
         /\ Len(recv[i]) >= 1
         /\ \A k \in 1..Len(recv[i]) : IsPage(recv[i][k])
         /\ \A k \in 1..(Len(recv[i]) - 1) : AdvertisesNext(recv[i][k])
         /\ OmitsNext(recv[i][Len(recv[i])]))
        => /\ pc[i] = "returned"
           /\ DOMAIN result[i] = { "success", "items", "pagination" }
           /\ result[i].success = TRUE
           /\ result[i].items = [k \in 1..Len(recv[i]) |-> recv[i][k].body]

C2_Witness ==
    \E i \in Invocations :
        /\ op[i] = "list_service_items"
        /\ pc[i] = "returned"
        /\ Len(recv[i]) = 3
        /\ \A k \in 1..2 : AdvertisesNext(recv[i][k])
        /\ OmitsNext(recv[i][3])
        /\ IsPage(recv[i][3])
        /\ recv[i][1].body = recv[i][3].body
        /\ recv[i][1].body # recv[i][2].body

\* C4: when a page request of list_service_items fails after k >= 1 pages
\* were fetched, the returned value is the error alone: its only field is
\* 'error', and the error names the exception, not the accumulated payloads.
C4_FailureDiscardsPages ==
    \A i \in Invocations :
        (/\ op[i] = "list_service_items"
         /\ Len(recv[i]) >= 2
         /\ IsFailure(recv[i][Len(recv[i])]))
        => /\ pc[i] = "returned"
           /\ DOMAIN result[i] = { "error" }
           /\ Len(result[i].error) = 2
           /\ DOMAIN result[i].error[2] = { "type", "status" }

C4_Witness ==
    \E i \in Invocations :
        /\ op[i] = "list_service_items"
        /\ pc[i] = "returned"
        /\ Len(recv[i]) = 2
        /\ IsPage(recv[i][1])
        /\ recv[i][2].kind = "response"
        /\ recv[i][2].status = 500

\* C3: within one invocation of an aggregator no page number is requested
\* twice, whatever next markers the upstream sends.
C3_NoPageRequestedTwice ==
    \A i \in Invocations :
        op[i] \in Aggregators
        => \A j, k \in 1..Len(sent[i]) : j # k => sent[i][j].page # sent[i][k].page

\* C5: no exception leaves a tool operation, whatever the outcome of its
\* HTTP calls.
C5_NoExceptionLeaves ==
    \A i \in Invocations : pc[i] # "raised"

\* C6: under fairness an aggregator returns once the upstream sends a page
\* without a next relation, and it has not ended as long as every answer was
\* a page advertising a next page.
C6_TerminatesIffNextOmitted ==
    /\ \A i \in Solo :
          [](( /\ op[i] \in Aggregators
               /\ IsPage(response[i])
               /\ OmitsNext(response[i]) )
             => <>(pc[i] = "returned"))
    /\ [](\A i \in Invocations :
             ( /\ op[i] \in Aggregators
               /\ Len(recv[i]) >= 1
               /\ \A k \in 1..Len(recv[i]) :
                     IsPage(recv[i][k]) /\ AdvertisesNext(recv[i][k]) )
             => ~Ended(i))

C6_Witness ==
    \E i \in Invocations :
        /\ op[i] = "filter_agents"
        /\ pc[i] = "returned"
        /\ Len(recv[i]) = 2
        /\ AdvertisesNext(recv[i][1])
        /\ OmitsNext(recv[i][2])

\* C7: against an upstream that advertises a next page on every response,
\* list_service_items stops after exactly 2 page requests and returns a
\* result marked as truncated.
C7_StopsAfterTwoPages ==
    \A i \in Invocations :
        ( /\ op[i] = "list_service_items"
          /\ Len(recv[i]) >= 2
          /\ \A k \in 1..2 : IsPage(recv[i][k]) /\ AdvertisesNext(recv[i][k]) )
        => /\ pc[i] = "returned"
           /\ Len(sent[i]) = 2
           /\ "truncated" \in DOMAIN result[i]

\* C8: pages are fetched one at a time: an invocation has at most one request
\* that is not yet answered and consumed, and each request after the first
\* asks for the page the Link header of the answer before it names.
C8_Sequential ==
    \A i \in Invocations :
        /\ outstanding[i] <= 1
        /\ Len(sent[i]) =
              Len(recv[i]) + outstanding[i]
                 + (IF response[i] = NoResponse THEN 0 ELSE 1)
        /\ Len(sent[i]) <= Len(recv[i]) + 1
        /\ op[i] \in Aggregators
           => \A k \in 2..Len(sent[i]) :
                 sent[i][k].page = parse_link_header(recv[i][k - 1].link).next

C8_Witness ==
    \E i \in Invocations :
        /\ op[i] \in Aggregators
        /\ Len(sent[i]) = 3
        /\ outstanding[i] = 1
        /\ sent[i][3].page # sent[i][2].page

\* What an aggregator does when it runs alone against the answers resps:
\* its position and locals after consuming them in order.
AloneCall(o, p, pp) ==
    IF o = "list_service_items" THEN list_service_items_call(p, pp)
    ELSE filter_agents_call

AloneResume(o, p, pp, out, resp) ==
    IF o = "list_service_items"
    THEN list_service_items_resume(p, pp, out.current_page, out.all_items, resp)
    ELSE filter_agents_resume(out.current_page, out.all_items, resp)

RECURSIVE Alone(_, _, _, _, _, _)
Alone(o, p, pp, out, resps, k) ==
    IF k > Len(resps) THEN out
    ELSE Alone(o, p, pp, AloneResume(o, p, pp, out, resps[k]), resps, k + 1)

\* C9: two interleaved invocations of the aggregators do not interfere: the
\* buffer, the cursor and the returned value of each are those of the same
\* invocation run alone against the answers it received.
C9_Independent ==
    \A i \in Invocations :
        op[i] \in Aggregators
        => LET out == Alone(op[i], page[i], per_page[i],
                            AloneCall(op[i], page[i], per_page[i]), recv[i], 1)
           IN  /\ all_items[i] = out.all_items
               /\ current_page[i] = out.current_page
               /\ Ended(i) <=> out.act # "get"
               /\ pc[i] = "returned" <=> out.act = "return"
               /\ result[i] = out.value

C9_Witness ==
    /\ \A i \in Invocations : op[i] \in Aggregators /\ Len(recv[i]) >= 1
    /\ pc[1] = "await"
    /\ pc[2] = "returned"
    /\ Len(recv[2]) = 2
    /\ all_items[1] # << >>
    /\ all_items[1] # all_items[2]

\* An answer that ended in a transport failure or a non-2xx status has
\* reached invocation i.
HasFailed(i) ==
    \/ IsFailure(response[i])
    \/ \E k \in 1..Len(recv[i]) : IsFailure(recv[i][k])

\* C10: once a request of an invocation has failed, the invocation issues no
\* further HTTP request.
C10_NoRetry ==
    [][\A i \in Invocations : HasFailed(i) => sent'[i] = sent[i]]_vars

C10_Witness ==
    \E i \in Invocations :
        /\ op[i] = "list_service_items"
        /\ Len(recv[i]) = 2
        /\ IsFailure(recv[i][2])
        /\ pc[i] = "returned"
        /\ Len(sent[i]) = 2

\* ------------------------------------------------- claims on the Link parser

\* parse_link_header has returned.
Parsed == markers # NoValue

\* The header made of these entries.
Header(links) == Link(join(links))

NoMarkers == [next |-> None, prev |-> None]

\* C11: for a header that is None or the empty string, parse_link_header
\* returns the record with next absent and prev absent (it raises nothing).
C11_EmptyHeader ==
    (Parsed /\ link_header \in { AbsentLink, Link(<< >>) })
        => markers = NoMarkers

C11_Witness ==
    Parsed /\ link_header = AbsentLink /\ markers = NoMarkers

\* Entries the parser has no pattern for: text that is no <url>; rel="..."
\* and entries whose URL has no page number.
Malformed == { Garbage } \cup NoPageEntries

\* C12: an entry that matches neither pattern is skipped; the marker of a
\* well-formed entry before or after it is what the well-formed entry says,
\* as in 'garbage, <http://x?page=3>; rel="next"' with next = 3, prev absent.
C12_SkipsMalformed ==
    Parsed =>
        \A g \in Malformed, p \in 1..(MaxPage + 1) :
            /\ link_header \in { Header(<< g, NextEntry(p) >>),
                                 Header(<< NextEntry(p), g >>) }
                  => markers = [next |-> p, prev |-> None]
            /\ p <= MaxPage /\ link_header \in { Header(<< g, PrevEntry(p) >>),
                                                Header(<< PrevEntry(p), g >>) }
                  => markers = [next |-> None, prev |-> p]

C12_Witness ==
    /\ Parsed
    /\ link_header = Header(<< Garbage, NextEntry(MaxPage + 1) >>)
    /\ markers = [next |-> MaxPage + 1, prev |-> None]

\* C13: a next entry followed by a prev entry and the same two entries
\* swapped give the same markers.
C13_OrderIndependent ==
    Parsed =>
        \A n \in 1..MaxPage, m \in 1..MaxPage :
            link_header \in { Header(<< NextEntry(n), PrevEntry(m) >>),
                              Header(<< PrevEntry(m), NextEntry(n) >>) }
                => markers = [next |-> n, prev |-> m]

C13_Witness ==
    /\ Parsed
    /\ link_header = Header(<< PrevEntry(1), NextEntry(MaxPage) >>)
    /\ markers = [next |-> MaxPage, prev |-> 1]

\* C14: the record returned holds the two markers next and prev and nothing
\* else, whatever relations the entries of the header name.
C14_OnlyNextAndPrev ==
    Parsed => DOMAIN markers = { "next", "prev" }

\* C15: for a URL with per_page=P and page=N, in either order, the marker is
\* the value N of the page parameter.
C15_PageParameter ==
    (Parsed /\ link_header \in { Header(<< LinkEntry(PerPageThenPage, rel_next) >>),
                                Header(<< LinkEntry(PageThenPerPage, rel_next) >>) })
        => markers.next = 2

\* C16: every marker returned is absent or a page number >= 1.
C16_MarkersPositive ==
    Parsed =>
        \A rel \in DOMAIN markers :
            markers[rel] = None \/ markers[rel] >= 1

AnsweredNon2xx(i) ==
    /\ Len(recv[i]) = 1
    /\ recv[i][1].kind = "response"
    /\ ~Is2xx(recv[i][1].status)

\* What the body of an answer is to the caller: the JSON document when the
\* body parses, its text when it does not.
BodyOrText(resp) == IF resp.json_ok THEN resp.body ELSE response_text(resp)

\* The value carries x under one of the keys the tools use for the body of
\* an error response.
Carries(v, x) ==
    \E k \in DOMAIN v \cap { "details", "raw_response", "response" } : v[k] = x

\* The literal text a returned message starts with.
Literal(v) ==
    IF "str" \in DOMAIN v THEN Head(v.str)
    ELSE IF "error" \in DOMAIN v THEN Head(v.error)
    ELSE ""

\* C18: after a non-2xx answer filter_tickets, get_canned_response and
\* create_product return (no exception leaves them), and the value returned
\* carries the JSON body when the body parses and its raw text when it does
\* not (the 'not found' value of get_canned_response for a 404 apart).
C18_ErrorCarriesBody ==
    \A i \in Invocations :
        ( /\ op[i] \in { "filter_tickets", "get_canned_response", "create_product" }
          /\ AnsweredNon2xx(i)
          /\ ~(op[i] = "get_canned_response" /\ recv[i][1].status = 404) )
        => /\ pc[i] = "returned"
           /\ Carries(result[i], BodyOrText(recv[i][1]))

\* The messages that say the resource was not found.
NotFoundLiterals == { "Canned response not found (404)", "Error: Ticket not found" }

\* C19: get_canned_response, delete_ticket and get_solution_article return a
\* 'not found' result for a 404, and for no other non-2xx status.
C19_NotFoundVariant ==
    \A i \in Invocations :
        ( /\ op[i] \in { "get_canned_response", "delete_ticket", "get_solution_article" }
          /\ AnsweredNon2xx(i) )
        => /\ pc[i] = "returned"
                 => (Literal(result[i]) \in NotFoundLiterals
                        <=> recv[i][1].status = 404)

\* The messages that announce validation errors of the upstream.
ValidationLiterals == { "Validation Error: ", "Validation errors: " }

\* The message of the value is the validation message with payload x.
ValidationMessage(v, x) ==
    /\ Literal(v) \in ValidationLiterals
    /\ IF "str" \in DOMAIN v THEN v.str[2] = x ELSE v.error[2] = x

\* The validation-error payload of a 400: the "errors" of a JSON body that
\* has them, the body when it has none.
Payload(resp) ==
    IF resp.json_ok /\ resp.body.key = "errors" THEN resp.body.list
    ELSE IF resp.json_ok THEN << resp.body >>
    ELSE << response_text(resp) >>

\* C20: create_ticket and update_ticket return, for a 400 with any body, the
\* validation message with the payload of the upstream, and for no other
\* error status a validation message.
C20_ValidationDistinct ==
    \A i \in Invocations :
        ( /\ op[i] \in { "create_ticket", "update_ticket" }
          /\ AnsweredNon2xx(i) )
        => IF recv[i][1].status = 400
           THEN /\ pc[i] = "returned"
                /\ ValidationMessage(result[i], Payload(recv[i][1]))
           ELSE pc[i] = "returned" => Literal(result[i]) \notin ValidationLiterals

\* ----------------------------------------------- claims on the ticket tools

\* The integers a table of documented names gives.
Values(doc) == { doc[name] : name \in DOMAIN doc }

\* v is a documented value in one of its two forms: the integer or the name.
IsDocumented(v, doc) ==
    \/ v.type = "int" /\ v.n \in Values(doc)
    \/ v.type = "str" /\ v.text \in DOMAIN doc

\* The integer of a documented value.
DocumentedValue(v, doc) == IF v.type = "int" THEN v.n ELSE doc[v.text]

\* v is no documented value in any form.
IsUndocumented(v, doc) ==
    /\ v.n \notin Values(doc)
    /\ ~(v.type = "str" /\ v.text \in DOMAIN doc)

\* The call of create_ticket in slot i names a requester.
HasRequester(i) == arguments[i].email # "" \/ Truthy(arguments[i].requester_id)

\* C21: create_ticket called with a requester and with source, priority and
\* status each a documented integer or a documented name issues the POST,
\* and the POST carries the integers of the three values.
C21_AcceptsNamesAndIntegers ==
    \A i \in Invocations :
        ( /\ op[i] = "create_ticket"
          /\ HasRequester(i)
          /\ IsDocumented(arguments[i].source, DocumentedSource)
          /\ IsDocumented(arguments[i].priority, DocumentedPriority)
          /\ IsDocumented(arguments[i].status, DocumentedStatus) )
        => /\ Len(sent[i]) = 1
           /\ sent[i][1].json.source
                 = DocumentedValue(arguments[i].source, DocumentedSource)
           /\ sent[i][1].json.priority
                 = DocumentedValue(arguments[i].priority, DocumentedPriority)
           /\ sent[i][1].json.status
                 = DocumentedValue(arguments[i].status, DocumentedStatus)

\* C22: create_ticket called without email and requester_id, or with a
\* source, priority or status that is no documented value, returns the error
\* that names the constraint and issues no request; every POST it issues
\* carries an email or a requester_id.
C22_InvalidArgumentsRejected ==
    \A i \in Invocations :
        op[i] = "create_ticket"
        => /\ ~HasRequester(i)
                 => /\ pc[i] = "returned"
                    /\ Literal(result[i])
                          = "Error: Either email or requester_id must be provided"
                    /\ sent[i] = << >>
           /\ ( /\ HasRequester(i)
                /\ \/ IsUndocumented(arguments[i].source, DocumentedSource)
                   \/ IsUndocumented(arguments[i].priority, DocumentedPriority)
                   \/ IsUndocumented(arguments[i].status, DocumentedStatus) )
                 => /\ pc[i] = "returned"
                    /\ Literal(result[i])
                          = "Error: Invalid value for source, priority, or status"
                    /\ sent[i] = << >>
           /\ \A k \in 1..Len(sent[i]) :
                 sent[i][k].json.email # "" \/ sent[i][k].json.requester_id # None

C22_Witness ==
    \E i \in Invocations :
        /\ op[i] = "create_ticket"
        /\ arguments[i].email = "" /\ arguments[i].requester_id = None
        /\ pc[i] = "returned"
        /\ sent[i] = << >>

\* ------------------------------------------------ claims on the page loops

\* The next marker the loop parses from a page answer.
NextMarker(resp) == parse_link_header(Link(headers_get_default(resp.link))).next

C24_LoopFollowsMarker ==
    \A i \in Invocations :
        op[i] \in Aggregators
        => \A k \in 1..Len(recv[i]) :
              IsPage(recv[i][k])
              => IF NextMarker(recv[i][k]) = None
                 THEN Len(sent[i]) = k /\ pc[i] = "returned"
                 ELSE /\ Len(sent[i]) >= k + 1
                      /\ sent[i][k + 1].page = NextMarker(recv[i][k])

\* C25: a successful list_service_items result carries the caller's start
\* page and per_page, the page parameter of the last request issued, and a
\* further field that tells whether another page remains.
PaginationFields == { "starting_page", "per_page", "last_fetched_page" }

C25_ResultMetadata ==
    \A i \in Invocations :
        ( /\ op[i] = "list_service_items"
          /\ pc[i] = "returned"
          /\ "success" \in DOMAIN result[i] )
        => /\ result[i].pagination.starting_page = page[i]
           /\ result[i].pagination.per_page = per_page[i]
           /\ result[i].pagination.last_fetched_page
                 = sent[i][Len(sent[i])].page
           /\ \/ DOMAIN result[i].pagination \ PaginationFields # { }
              \/ DOMAIN result[i] \ { "success", "items", "pagination" } # { }

\* -------------------------------------------- claims on get_requested_items

\* The answer is a fetched ticket of type Service Request.
IsServiceRequest(resp) ==
    IsPage(resp) /\ ticket_type(resp.body) = "Service Request"

\* C26: get_requested_items issues the requested_items request only after
\* the ticket request was answered with a ticket of type Service Request;
\* after any other answer to the ticket request it issues no second request
\* and returns a result with success = false.
C26_ItemsOnlyForServiceRequest ==
    \A i \in Invocations :
        op[i] = "get_requested_items"
        => /\ Len(sent[i]) <= 2
           /\ Len(sent[i]) >= 1 => sent[i][1].url = "tickets/1"
           /\ Len(sent[i]) = 2
                 => /\ sent[i][2].url = "tickets/1/requested_items"
                    /\ Len(recv[i]) >= 1
                    /\ IsServiceRequest(recv[i][1])
           /\ (Len(recv[i]) >= 1 /\ ~IsServiceRequest(recv[i][1]))
                 => /\ Len(sent[i]) = 1
                    /\ pc[i] = "returned"
                    /\ "success" \in DOMAIN result[i]
                    /\ result[i].success = FALSE

C26_Witness ==
    \E i \in Invocations :
        /\ op[i] = "get_requested_items"
        /\ Len(recv[i]) = 1
        /\ IsPage(recv[i][1])
        /\ ~IsServiceRequest(recv[i][1])
        /\ pc[i] = "returned"

\* C27: whatever the status of the answer to the requested_items request,
\* get_requested_items returns a structured value, never None.
C27_AlwaysReturnsDict ==
    \A i \in Invocations :
        (op[i] = "get_requested_items" /\ Len(recv[i]) = 2)
        => /\ pc[i] = "returned"
           /\ result[i] # ImplicitNone

\* ------------------------------------------- claims on the pagination flags

\* The call returned its success result.
Succeeded(i) == pc[i] = "returned" /\ "success" \in DOMAIN result[i] /\ result[i].success

\* C28: has_next of get_all_products and has_more of get_all_requesters and
\* get_all_agents are true exactly when the next marker of the answer's Link
\* header is present (not None), so the three report the same flag for the
\* same header.
C28_FlagsAgree ==
    \A i \in Invocations :
        /\ (op[i] = "get_all_products" /\ Succeeded(i))
              => /\ result[i].pagination.next_page = NextMarker(recv[i][1])
                 /\ result[i].pagination.has_next
                       = (NextMarker(recv[i][1]) # None)
        /\ (op[i] \in { "get_all_requesters", "get_all_agents" } /\ Succeeded(i))
              => /\ result[i].pagination.next_page = NextMarker(recv[i][1])
                 /\ result[i].pagination.has_more
                       = (NextMarker(recv[i][1]) # None)

\* ------------------------------------------------- claims on update_ticket

\* C29: update_ticket leaves the dict the caller passed as ticket_fields as
\* it was, 'custom_fields' included, on every path.
C29_ArgumentUnchanged ==
    \A i \in Invocations :
        op[i] = "update_ticket" => caller_dict[i] = arguments[i]

\* ------------------------------------------- claims on repeated relations

\* C30: when a header holds several well-formed entries of one relation,
\* parse_link_header returns for that relation the page number of the last
\* of them in header order, and the marker of the other relation is the one
\* its own entry gives (absent when it has none).
C30_LastEntryWins ==
    Parsed =>
        \A a \in 1..MaxPage, b \in 1..MaxPage, m \in 1..MaxPage :
            /\ link_header = Header(<< NextEntry(a), NextEntry(b) >>)
                  => markers = [next |-> b, prev |-> None]
            /\ link_header = Header(<< PrevEntry(a), PrevEntry(b) >>)
                  => markers = [next |-> None, prev |-> b]
            /\ link_header \in
                  { Header(<< PrevEntry(m), NextEntry(a), NextEntry(b) >>),
                    Header(<< NextEntry(a), PrevEntry(m), NextEntry(b) >>),
                    Header(<< NextEntry(a), NextEntry(b), PrevEntry(m) >>) }
                  => markers = [next |-> b, prev |-> m]
            /\ link_header \in
                  { Header(<< NextEntry(m), PrevEntry(a), PrevEntry(b) >>),
                    Header(<< PrevEntry(a), NextEntry(m), PrevEntry(b) >>),
                    Header(<< PrevEntry(a), PrevEntry(b), NextEntry(m) >>) }
                  => markers = [next |-> m, prev |-> b]

C30_Witness ==
    /\ Parsed
    /\ link_header = Header(<< NextEntry(1), PrevEntry(1), NextEntry(MaxPage) >>)
    /\ markers = [next |-> MaxPage, prev |-> 1]

====
